---- MODULE Spec2Model ----
(***************************************************************************)
(* A model of the lit-notes example packages: the custom elements of the   *)
(* lifecycle and events packages and the open-wc counter element, together *)
(* with the parts of the platform they act on (the window's listener list, *)
(* the timer table, the microtask queue and event dispatch through shadow  *)
(* trees).                                                                 *)
(***************************************************************************)
EXTENDS Integers, Sequences, FiniteSets, TLC

VARIABLES
  owc,            \* lit-open-wc-web-component-test: the fixtures of the test file
  windowListeners,\* the window's event listener list: a sequence of [type, callback]
  cce,            \* connected-callback-element instances
  dce,            \* disconnected-callback-element instances
  loe,            \* listeners-on-other-elements instances
  timers,         \* the window's active interval timers: a set of [handle, self]
  nextHandle,     \* the handle the next setInterval returns
  tue,            \* triggering-update-element instances
  cue,            \* completing-update-element instances
  promiseState,   \* every promise created so far: "pending", "fulfilled" or "rejected"
  reactions,      \* the continuations awaiting a pending promise, in order
  microtasks,     \* the microtask queue
  draining,       \* a microtask checkpoint is under way
  events,         \* the events dispatched so far, with what was rendered then
  appended,       \* per dispatcher element: the divs its click handler has appended
  msg,            \* per listener element: its msg property
  received,       \* per template listener: how many events it has been invoked with
  cbd,            \* communicating-between-dispatcher-listener-dispatcher
  cbl,            \* communicating-between-dispatcher-listener-listener
  lastClick,      \* the last click on the dispatcher's checkbox and what it did
  papp,           \* the lifecycle AppElement's msg, prop1 and prop2 state
  pue,            \* performing-update-element
  lastCycle,      \* performing-update-element's last update cycle and what it ran
  ace,            \* attribute-changed-callback-element
  deu,            \* dispatching-events-after-an-element-updates
  lau,            \* listener-after-an-element-updates
  cze,            \* customize-update-element
  che,            \* its child-element
  gets            \* the getUpdateComplete() calls made on customize-update-element

owcVars == <<owc>>
windowVars == <<windowListeners, cce, dce, loe>>
timerVars == <<timers, nextHandle, tue>>
updateVars == <<cue, promiseState, reactions, microtasks, draining, events>>

domVars == <<appended, msg, received>>
commVars == <<cbd, cbl, lastClick>>
performVars == <<papp, pue, lastCycle, ace>>
notifyVars == <<deu, lau>>
customizeVars == <<cze, che, gets>>

vars == <<owcVars, windowVars, timerVars, updateVars, domVars, commVars, performVars, notifyVars, customizeVars>>

\* What the actions of one package leave alone: the other packages' state.
OwcFrame == UNCHANGED <<windowVars, timerVars, updateVars, domVars, commVars, performVars, notifyVars, customizeVars>>
WindowFrame == UNCHANGED <<owcVars, timerVars, updateVars, domVars, commVars, performVars, notifyVars, customizeVars>>
TimerFrame == UNCHANGED <<owcVars, windowVars, updateVars, domVars, commVars, performVars, notifyVars, customizeVars>>
UpdateFrame == UNCHANGED <<owcVars, windowVars, timerVars, domVars, commVars, performVars, notifyVars, customizeVars>>
DomFrame == UNCHANGED <<owcVars, windowVars, timerVars, updateVars, commVars, performVars, notifyVars, customizeVars>>
CommFrame == UNCHANGED <<owcVars, windowVars, timerVars, updateVars, domVars, performVars, notifyVars, customizeVars>>
PerformFrame == UNCHANGED <<owcVars, windowVars, timerVars, updateVars, domVars, commVars, notifyVars, customizeVars>>
\* The elements below share the page's promises and microtask queue.
NotifyFrame == UNCHANGED <<owcVars, windowVars, timerVars, domVars, commVars, performVars, cue, customizeVars>>
CustomizeFrame == UNCHANGED <<owcVars, windowVars, timerVars, cue, domVars, commVars, performVars, notifyVars>>

(***************************************************************************)
(* Bounds of the model.                                                    *)
(***************************************************************************)
NumFixtures == 2
MaxClicks == 3
NumKeydownInstances == 2
NumResizeInstances == 3
MaxConnects == 2
NumTimerInstances == 2
MaxHandles == 4
NumLoginInstances == 2
MaxLoginClicks == 2
MaxDispatchClicks == 4
MaxNotifyCalls == 3
MaxGetCalls == 3

(***************************************************************************)
(* lit-open-wc-web-component-test.  The element's class is not among the   *)
(* sources; its test file is.  The element is modelled from the tests:     *)
(* two reactive properties, header (String) and counter (Number), and a    *)
(* button whose click handler increments counter.                          *)
(***************************************************************************)
Fixtures == 1..NumFixtures

\* The header attribute values a fixture's markup may carry.
HeaderAttrs == {"attribute header", "My header", ""}

\* A fixture's markup: the header attribute is absent (<<>>) or present (<<v>>).
Markups == {<<>>} \cup {<<v>> : v \in HeaderAttrs}

NoElement == [created |-> FALSE, header |-> "", counter |-> 0, clicks |-> 0, markup |-> <<>>]

\* The element as its constructor leaves it (the property initialisers).
LitOpenWcWebComponentTest ==
  [created |-> TRUE, header |-> "Hey there", counter |-> 5, clicks |-> 0, markup |-> <<>>]

\* A faulty variant of attributeToProperty: the attribute is observed but not copied.
attributeToPropertyIgnored(el, markup) == [el EXCEPT !.markup = markup]

\* Lit's attributeChangedCallback for the markup's attributes: a String
\* property takes the attribute's value as it is written.
attributeToProperty(el, markup) ==
  IF Len(markup) = 0
    THEN [el EXCEPT !.markup = markup]
    ELSE [el EXCEPT !.markup = markup, !.header = markup[1]]

\* A faulty variant of __increment: the handler adds two.
__incrementTwice(el) == [el EXCEPT !.counter = @ + 2, !.clicks = @ + 1]

\* The button's click handler.
__increment(el) == [el EXCEPT !.counter = @ + 1, !.clicks = @ + 1]

\* fixture(html`<lit-open-wc-web-component-test ...>`): construct, then
\* apply the markup's attributes.
fixture(f, markup) ==
  /\ ~owc[f].created
  /\ owc' = [owc EXCEPT ![f] = attributeToProperty(LitOpenWcWebComponentTest, markup)]
  /\ OwcFrame

\* el.shadowRoot.querySelector('button').click()
owcClick(f) ==
  /\ owc[f].created
  /\ owc[f].clicks < MaxClicks
  /\ owc' = [owc EXCEPT ![f] = __increment(owc[f])]
  /\ OwcFrame

OwcInit == owc = [f \in Fixtures |-> NoElement]

OwcNext ==
  \/ \E f \in Fixtures, m \in Markups : fixture(f, m)
  \/ \E f \in Fixtures : owcClick(f)

(***************************************************************************)
(* The window's event listener list.  An entry is a type and a callback;   *)
(* a callback is identified by the function object: a class field holding  *)
(* an arrow function is one object per instance (self is the instance), a  *)
(* prototype method is one object for the class (self is 0).               *)
(***************************************************************************)
Listener(type, callback) == [type |-> type, callback |-> callback]

RECURSIVE Without(_, _)
Without(list, entry) ==
  IF list = <<>> THEN <<>>
  ELSE IF Head(list) = entry THEN Tail(list)
  ELSE <<Head(list)>> \o Without(Tail(list), entry)

Registered(list, entry) == \E k \in 1..Len(list) : list[k] = entry

Registrations(list, entry) == Cardinality({k \in 1..Len(list) : list[k] = entry})

\* window.addEventListener(type, callback): an entry with the same type and
\* callback already in the list is not added again.
addEventListener(list, type, callback) ==
  IF Registered(list, Listener(type, callback))
    THEN list
    ELSE Append(list, Listener(type, callback))

\* window.removeEventListener(type, callback): removes the matching entry,
\* if there is one.
removeEventListener(list, type, callback) == Without(list, Listener(type, callback))

KeydownInstances == 1..NumKeydownInstances
ResizeInstances == 1..NumResizeInstances

(***************************************************************************)
(* connected-callback-element                                              *)
(***************************************************************************)
ConnectedCallbackElement_handleKeydown(i) ==
  [fn |-> "ConnectedCallbackElement._handleKeydown", self |-> i]

ConnectedCallbackElement_connectedCallback(i) ==
  /\ ~cce[i].connected
  /\ cce' = [cce EXCEPT ![i].connected = TRUE]
  /\ windowListeners' =
       addEventListener(windowListeners, "keydown", ConnectedCallbackElement_handleKeydown(i))
  /\ UNCHANGED <<dce, loe>>
  /\ WindowFrame

\* The class defines no disconnectedCallback: LitElement's runs, which
\* touches no listener of the window.
ConnectedCallbackElement_disconnectedCallback(i) ==
  /\ cce[i].connected
  /\ cce' = [cce EXCEPT ![i].connected = FALSE]
  /\ UNCHANGED <<windowListeners, dce, loe>>
  /\ WindowFrame

(***************************************************************************)
(* disconnected-callback-element                                           *)
(***************************************************************************)
DisconnectedCallbackElement_handleKeydown(i) ==
  [fn |-> "DisconnectedCallbackElement._handleKeydown", self |-> i]

DisconnectedCallbackElement_connectedCallback(i) ==
  /\ ~dce[i].connected
  /\ dce' = [dce EXCEPT ![i].connected = TRUE]
  /\ windowListeners' =
       addEventListener(windowListeners, "keydown", DisconnectedCallbackElement_handleKeydown(i))
  /\ UNCHANGED <<cce, loe>>
  /\ WindowFrame

\* A faulty variant of disconnectedCallback: the listener is left on the window.
DisconnectedCallbackElement_disconnectedCallbackLeaks(i) ==
  /\ dce[i].connected
  /\ dce' = [dce EXCEPT ![i].connected = FALSE]
  /\ UNCHANGED <<windowListeners, cce, loe>>
  /\ WindowFrame

DisconnectedCallbackElement_disconnectedCallback(i) ==
  /\ dce[i].connected
  /\ dce' = [dce EXCEPT ![i].connected = FALSE]
  /\ windowListeners' =
       removeEventListener(windowListeners, "keydown", DisconnectedCallbackElement_handleKeydown(i))
  /\ UNCHANGED <<cce, loe>>
  /\ WindowFrame

(***************************************************************************)
(* listeners-on-other-elements.  _handleResize is a method of the class:   *)
(* every instance passes the same function object to the window.           *)
(* connects counts an instance's connections, saturating at MaxConnects.   *)
(***************************************************************************)
ListenersOnOtherElements_handleResize ==
  [fn |-> "ListenersOnOtherElements._handleResize", self |-> 0]

Saturating(n) == IF n < MaxConnects THEN n + 1 ELSE n

ListenersOnOtherElements_connectedCallback(i) ==
  /\ ~loe[i].connected
  /\ loe' = [loe EXCEPT ![i].connected = TRUE, ![i].connects = Saturating(@)]
  /\ windowListeners' =
       addEventListener(windowListeners, "resize", ListenersOnOtherElements_handleResize)
  /\ UNCHANGED <<cce, dce>>
  /\ WindowFrame

\* A faulty variant of disconnectedCallback: the listener is left on the window.
ListenersOnOtherElements_disconnectedCallbackLeaks(i) ==
  /\ loe[i].connected
  /\ loe' = [loe EXCEPT ![i].connected = FALSE]
  /\ UNCHANGED <<windowListeners, cce, dce>>
  /\ WindowFrame

ListenersOnOtherElements_disconnectedCallback(i) ==
  /\ loe[i].connected
  /\ windowListeners' =
       removeEventListener(windowListeners, "resize", ListenersOnOtherElements_handleResize)
  /\ loe' = [loe EXCEPT ![i].connected = FALSE]
  /\ UNCHANGED <<cce, dce>>
  /\ WindowFrame

WindowInit ==
  /\ windowListeners = <<>>
  /\ cce = [i \in KeydownInstances |-> [connected |-> FALSE]]
  /\ dce = [i \in KeydownInstances |-> [connected |-> FALSE]]
  /\ loe = [i \in ResizeInstances |-> [connected |-> FALSE, connects |-> 0]]

\* The document adds and removes the keydown elements.
KeydownNext ==
  \/ \E i \in KeydownInstances : ConnectedCallbackElement_connectedCallback(i)
  \/ \E i \in KeydownInstances : ConnectedCallbackElement_disconnectedCallback(i)
  \/ \E i \in KeydownInstances : DisconnectedCallbackElement_connectedCallback(i)
  \/ \E i \in KeydownInstances : DisconnectedCallbackElement_disconnectedCallback(i)

\* The document adds and removes the resize elements.
ResizeNext ==
  \/ \E i \in ResizeInstances : ListenersOnOtherElements_connectedCallback(i)
  \/ \E i \in ResizeInstances : ListenersOnOtherElements_disconnectedCallback(i)

(***************************************************************************)
(* triggering-update-element.  setInterval returns a fresh handle and      *)
(* enters the callback in the window's table of active timers;             *)
(* clearInterval removes the entry with that handle; a callback runs only  *)
(* while its entry is in the table.  An update requested by                *)
(* requestUpdate() is performed once the element has been connected.       *)
(***************************************************************************)
TimerInstances == 1..NumTimerInstances

\* 0 stands for undefined, the field's value before the first connect.
TriggeringUpdateElement ==
  [connected |-> FALSE, _timerInterval |-> 0, isUpdatePending |-> TRUE,
   hasConnected |-> FALSE, requestedWhileDisconnected |-> FALSE]

setInterval(table, handle, self) == table \cup {[handle |-> handle, self |-> self]}

clearInterval(table, handle) == {t \in table : t.handle # handle}

TriggeringUpdateElement_connectedCallback(i) ==
  /\ ~tue[i].connected
  /\ nextHandle <= MaxHandles
  /\ timers' = setInterval(timers, nextHandle, i)
  /\ nextHandle' = nextHandle + 1
  /\ tue' = [tue EXCEPT ![i].connected = TRUE, ![i].hasConnected = TRUE,
                        ![i]._timerInterval = nextHandle]
  /\ TimerFrame

\* A faulty variant of disconnectedCallback: the interval is not cleared.
TriggeringUpdateElement_disconnectedCallbackNoClear(i) ==
  /\ tue[i].connected
  /\ tue' = [tue EXCEPT ![i].connected = FALSE]
  /\ UNCHANGED <<timers, nextHandle>>
  /\ TimerFrame

TriggeringUpdateElement_disconnectedCallback(i) ==
  /\ tue[i].connected
  /\ tue' = [tue EXCEPT ![i].connected = FALSE]
  /\ timers' = clearInterval(timers, tue[i]._timerInterval)
  /\ UNCHANGED nextHandle
  /\ TimerFrame

\* The interval's callback, run by the window for an active timer: it calls
\* this.requestUpdate().
TriggeringUpdateElement_intervalCallback(t) ==
  /\ t \in timers
  /\ tue' = [tue EXCEPT ![t.self].isUpdatePending = TRUE,
                        ![t.self].requestedWhileDisconnected = @ \/ ~tue[t.self].connected]
  /\ UNCHANGED <<timers, nextHandle>>
  /\ TimerFrame

\* Lit performs the pending update of an element that has been connected.
TriggeringUpdateElement_performUpdate(i) ==
  /\ tue[i].isUpdatePending
  /\ tue[i].hasConnected
  /\ tue' = [tue EXCEPT ![i].isUpdatePending = FALSE]
  /\ UNCHANGED <<timers, nextHandle>>
  /\ TimerFrame

TimerInit ==
  /\ timers = {}
  /\ nextHandle = 1
  /\ tue = [i \in TimerInstances |-> TriggeringUpdateElement]

TimerNext ==
  \/ \E i \in TimerInstances : TriggeringUpdateElement_connectedCallback(i)
  \/ \E i \in TimerInstances : TriggeringUpdateElement_disconnectedCallback(i)
  \/ \E t \in timers : TriggeringUpdateElement_intervalCallback(t)
  \/ \E i \in TimerInstances : TriggeringUpdateElement_performUpdate(i)

(***************************************************************************)
(* Promises and the microtask queue.  A continuation that awaits a promise *)
(* is queued as a microtask when the promise is fulfilled (at once when it *)
(* already is); microtasks run first in, first out, and once a checkpoint  *)
(* has begun it runs until the queue is empty: a click or a connect, which *)
(* are tasks or calls of a running script, come before it or after it.    *)
(***************************************************************************)
\* The continuations waiting on promise p, as microtasks, in their order.
ReactionsOf(rs, p) ==
  LET Waits(r) == r.promise = p
      picked == SelectSeq(rs, Waits)
  IN [k \in 1..Len(picked) |-> picked[k].task]

OtherReactions(rs, p) ==
  LET WaitsElse(r) == r.promise # p
  IN SelectSeq(rs, WaitsElse)

\* The continuations of a rejected promise: their await throws.
Thrown(tasks) == [k \in 1..Len(tasks) |-> [tasks[k] EXCEPT !.rejected = TRUE]]

\* await p: st is [promiseState, reactions, microtasks]; the continuation
\* task runs in a later microtask, after p is settled.
Await(st, p, task) ==
  CASE st.promiseState[p] = "fulfilled" -> [st EXCEPT !.microtasks = Append(@, task)]
    [] st.promiseState[p] = "rejected" -> [st EXCEPT !.microtasks = @ \o Thrown(<<task>>)]
    [] OTHER -> [st EXCEPT !.reactions = Append(@, [promise |-> p, task |-> task])]

\* Reject p: its waiting continuations are queued, to throw.
Reject(st, p) ==
  IF st.promiseState[p] # "pending"
    THEN st
    ELSE [promiseState |-> [st.promiseState EXCEPT ![p] = "rejected"],
          reactions |-> OtherReactions(st.reactions, p),
          microtasks |-> st.microtasks \o Thrown(ReactionsOf(st.reactions, p))]

\* Fulfil p: its waiting continuations are queued.
Resolve(st, p) ==
  IF st.promiseState[p] # "pending"
    THEN st
    ELSE [promiseState |-> [st.promiseState EXCEPT ![p] = "fulfilled"],
          reactions |-> OtherReactions(st.reactions, p),
          microtasks |-> st.microtasks \o ReactionsOf(st.reactions, p)]

\* new Promise(...): the next unused promise.
NewPromise(st) == Len(st.promiseState) + 1

WithNewPromise(st) == [st EXCEPT !.promiseState = Append(@, "pending")]

Scheduler == [promiseState |-> promiseState, reactions |-> reactions,
              microtasks |-> microtasks]

SetScheduler(st) ==
  /\ promiseState' = st.promiseState
  /\ reactions' = st.reactions
  /\ microtasks' = st.microtasks

(***************************************************************************)
(* completing-update-element.  The element's reactive update cycle is      *)
(* Lit's: setting a reactive property to a different value requests an     *)
(* update; a requested update is performed in a microtask, after the       *)
(* previous update promise; updateComplete is the promise of that update,  *)
(* fulfilled when the update has been performed.  The first update waits   *)
(* for the first connectedCallback.                                        *)
(***************************************************************************)
LoginInstances == 1..NumLoginInstances

\* dispatching-events-after-an-element-updates is one more element of the
\* page: what names it in a continuation, and its constructor's promises.
NotifySelf == 0
NotifyEnablePromise == 2 * NumLoginInstances + 1
NotifyFirstUpdatePromise == 2 * NumLoginInstances + 2

\* The same for listener-after-an-element-updates.
NotifyListenerSelf == -1
NotifyListenerEnablePromise == 2 * NumLoginInstances + 3
NotifyListenerFirstUpdatePromise == 2 * NumLoginInstances + 4

\* The same for customize-update-element; its child-element is created, with
\* its promises, by the element's first render.
CustomizeSelf == -2
CustomizeEnablePromise == 2 * NumLoginInstances + 5
CustomizeFirstUpdatePromise == 2 * NumLoginInstances + 6
ChildSelf == -3

\* The element after its constructor: loggedIn is false, the constructor
\* has requested the first update, nothing is rendered (rendered is <<>>;
\* after an update it is <<the value of loggedIn shown>>).  Instance i's
\* first promise (2i - 1) is the one connectedCallback fulfils, its second
\* (2i) the promise of the first update.
CompletingUpdateElement(i) ==
  [connected |-> FALSE, loggedIn |-> FALSE, changedProperties |-> {},
   isUpdatePending |-> TRUE, rendered |-> <<>>,
   enablePromise |-> 2 * i - 1, updatePromise |-> 2 * i, clicks |-> 0]

\* A continuation: rejected tells whether the promise it awaited rejected.
EnqueueUpdateTask(i, p) ==
  [kind |-> "enqueueUpdate", self |-> i, promise |-> p, rejected |-> FALSE]
LoginContinuation(i) ==
  [kind |-> "loginContinuation", self |-> i, promise |-> 0, rejected |-> FALSE]

\* requestUpdate(name, oldValue) as the property setter calls it: el is the
\* element with the new value set; nothing happens when the value is the
\* old one; an update already pending is not requested again.
\* Yields [el, st].
requestUpdate(i, el, st, name, changed) ==
  IF ~changed THEN [el |-> el, st |-> st]
  ELSE IF el.isUpdatePending
    THEN [el |-> [el EXCEPT !.changedProperties = @ \cup {name}], st |-> st]
    ELSE LET p == NewPromise(st)
         IN [el |-> [el EXCEPT !.changedProperties = @ \cup {name},
                               !.isUpdatePending = TRUE,
                               !.updatePromise = p],
             st |-> Await(WithNewPromise(st), el.updatePromise, EnqueueUpdateTask(i, p))]

\* performUpdate(): render the current state.
performUpdate(el) ==
  IF ~el.isUpdatePending THEN el
  ELSE [el EXCEPT !.rendered = <<el.loggedIn>>,
                  !.changedProperties = {},
                  !.isUpdatePending = FALSE]

\* performUpdate() when render() or update() throws: nothing is rendered and
\* the element is marked updated.
performUpdateThrows(el) ==
  IF ~el.isUpdatePending THEN el
  ELSE [el EXCEPT !.changedProperties = {}, !.isUpdatePending = FALSE]

\* dispatchEvent: the event, with what the element showed at that moment.
Dispatched(i, type, el) ==
  [type |-> type, self |-> i, rendered |-> el.rendered, isUpdatePending |-> el.isUpdatePending]

\* connectedCallback(): the first one lets the first update run.
CompletingUpdateElement_connectedCallback(i) ==
  /\ ~draining
  /\ ~cue[i].connected
  /\ cue' = [cue EXCEPT ![i].connected = TRUE]
  /\ SetScheduler(Resolve(Scheduler, cue[i].enablePromise))
  /\ UNCHANGED <<draining, events>>
  /\ UpdateFrame

\* A faulty variant of _loginClickHandler: the event is dispatched without awaiting
\* updateComplete.
CompletingUpdateElement_loginClickHandlerNoAwait(i) ==
  LET set == [cue[i] EXCEPT !.loggedIn = TRUE, !.clicks = @ + 1]
      req == requestUpdate(i, set, Scheduler, "loggedIn", cue[i].loggedIn # TRUE)
  IN /\ cue' = [cue EXCEPT ![i] = req.el]
     /\ SetScheduler(req.st)
     /\ events' = Append(events, Dispatched(i, "login", req.el))

\* _loginClickHandler up to its await: loggedIn = true, then the rest of
\* the handler waits for updateComplete.
CompletingUpdateElement_loginClickHandler(i) ==
  LET set == [cue[i] EXCEPT !.loggedIn = TRUE, !.clicks = @ + 1]
      req == requestUpdate(i, set, Scheduler, "loggedIn", cue[i].loggedIn # TRUE)
  IN /\ cue' = [cue EXCEPT ![i] = req.el]
     /\ SetScheduler(Await(req.st, req.el.updatePromise, LoginContinuation(i)))
     /\ UNCHANGED events

\* A click on the Login button, which is there once the element has rendered.
CompletingUpdateElement_click(i) ==
  /\ ~draining
  /\ cue[i].rendered # <<>>
  /\ cue[i].clicks < MaxLoginClicks
  /\ CompletingUpdateElement_loginClickHandler(i)
  /\ UNCHANGED draining
  /\ UpdateFrame

\* The microtask at the head of the queue runs.
\* __enqueueUpdate after its await, which it guards with try/catch: perform
\* the update, then fulfil the update's promise.
RunEnqueueUpdate ==
  /\ microtasks # <<>>
  /\ Head(microtasks).kind = "enqueueUpdate"
  /\ LET task == Head(microtasks)
         st == [Scheduler EXCEPT !.microtasks = Tail(microtasks)]
         done == Resolve(st, task.promise)
     IN /\ cue' = [cue EXCEPT ![task.self] = performUpdate(cue[task.self])]
        /\ SetScheduler(done)
        /\ draining' = (done.microtasks # <<>>)
  /\ UNCHANGED events
  /\ UpdateFrame

\* __enqueueUpdate when the update throws: the update's promise rejects.
RunEnqueueUpdateThrows ==
  /\ microtasks # <<>>
  /\ Head(microtasks).kind = "enqueueUpdate"
  /\ LET task == Head(microtasks)
         st == [Scheduler EXCEPT !.microtasks = Tail(microtasks)]
         done == Reject(st, task.promise)
     IN /\ cue' = [cue EXCEPT ![task.self] = performUpdateThrows(cue[task.self])]
        /\ SetScheduler(done)
        /\ draining' = (done.microtasks # <<>>)
  /\ UNCHANGED events
  /\ UpdateFrame

\* A faulty variant of RunLoginContinuation: the await is inside a try/catch
\* and the event is dispatched either way.
RunLoginContinuationCatches ==
  /\ microtasks # <<>>
  /\ Head(microtasks).kind = "loginContinuation"
  /\ LET task == Head(microtasks)
     IN events' = Append(events, Dispatched(task.self, "login", cue[task.self]))
  /\ microtasks' = Tail(microtasks)
  /\ draining' = (Tail(microtasks) # <<>>)
  /\ UNCHANGED <<cue, promiseState, reactions>>
  /\ UpdateFrame

\* _loginClickHandler after its await: this.dispatchEvent(new Event("login")),
\* or, the awaited promise rejected, the handler's own promise rejects with
\* nobody handling it: the window gets an unhandledrejection event.
RunLoginContinuation ==
  /\ microtasks # <<>>
  /\ Head(microtasks).kind = "loginContinuation"
  /\ LET task == Head(microtasks)
     IN events' = Append(events,
                         Dispatched(task.self,
                                    IF task.rejected THEN "unhandledrejection" ELSE "login",
                                    cue[task.self]))
  /\ microtasks' = Tail(microtasks)
  /\ draining' = (Tail(microtasks) # <<>>)
  /\ UNCHANGED <<cue, promiseState, reactions>>
  /\ UpdateFrame

\* The promises the constructors of the page's elements have created.
UpdateInit ==
  /\ cue = [i \in LoginInstances |-> CompletingUpdateElement(i)]
  /\ promiseState = [p \in 1..(2 * NumLoginInstances + 6) |-> "pending"]
  /\ reactions = [i \in LoginInstances |->
                    [promise |-> 2 * i - 1, task |-> EnqueueUpdateTask(i, 2 * i)]]
                 \o <<[promise |-> NotifyEnablePromise,
                       task |-> EnqueueUpdateTask(NotifySelf, NotifyFirstUpdatePromise)],
                      [promise |-> NotifyListenerEnablePromise,
                       task |-> EnqueueUpdateTask(NotifyListenerSelf,
                                                  NotifyListenerFirstUpdatePromise)],
                      [promise |-> CustomizeEnablePromise,
                       task |-> EnqueueUpdateTask(CustomizeSelf, CustomizeFirstUpdatePromise)]>>
  /\ microtasks = <<>>
  /\ draining = FALSE
  /\ events = <<>>

LoginNext ==
  \/ \E i \in LoginInstances : CompletingUpdateElement_connectedCallback(i)
  \/ \E i \in LoginInstances : CompletingUpdateElement_click(i)
  \/ RunEnqueueUpdate
  \/ RunEnqueueUpdateThrows
  \/ RunLoginContinuation

(***************************************************************************)
(* Working with events in shadow DOM: the tree AppElement renders, and DOM *)
(* event dispatch through it.  A node is [kind, of, k]: of is the tag of   *)
(* the element whose template (or light DOM position) the node comes from, *)
(* k numbers the divs a dispatcher's click handler appends (0 otherwise).  *)
(***************************************************************************)
Node(kind, of, k) == [kind |-> kind, of |-> of, k |-> k]

Null == Node("null", "", 0)
Document == Node("document", "", 0)
HostOf(tag) == Node("host", tag, 0)
ShadowOf(tag) == Node("shadowRoot", tag, 0)

App == "app-element"
Understanding == "understanding-composed-event-dispatching"
BubbleListener == "bubble-event-listener"
BubbleDispatcher == "bubble-event-dispatcher"
BubbleComposedListener == "bubble-composed-event-listener"
BubbleComposedDispatcher == "bubble-composed-event-dispatcher"
ComposedListener == "composed-event-listener"
ComposedDispatcher == "composed-event-dispatcher"
CommunicatingListener == "communicating-between-dispatcher-listener-listener"
CommunicatingDispatcher == "communicating-between-dispatcher-listener-dispatcher"
NotifyListener == "listener-after-an-element-updates"
NotifyDispatcher == "dispatching-events-after-an-element-updates"

ListenerTags == {BubbleListener, BubbleComposedListener, ComposedListener}
DispatcherTags == {BubbleDispatcher, BubbleComposedDispatcher, ComposedDispatcher}

\* AppElement.render: each dispatcher is the light DOM child of its listener.
ListenerOf(tag) ==
  CASE tag = BubbleDispatcher -> BubbleListener
    [] tag = BubbleComposedDispatcher -> BubbleComposedListener
    [] tag = ComposedDispatcher -> ComposedListener
    [] tag = CommunicatingDispatcher -> CommunicatingListener
    [] tag = NotifyDispatcher -> NotifyListener

\* A node's parent in its own node tree (a shadow root has none).
TreeParent(n) ==
  CASE n.kind = "host" ->
         IF n.of = App THEN Document
         ELSE IF n.of = Understanding THEN ShadowOf(App)
         ELSE IF n.of \in ListenerTags THEN HostOf(Understanding)
         ELSE IF n.of \in {CommunicatingListener, NotifyListener} THEN ShadowOf(App)
         ELSE HostOf(ListenerOf(n.of))
    [] n.kind = "div" ->
         IF n.of \in {BubbleListener, BubbleComposedListener}
           THEN Node("border", n.of, 0)
           ELSE ShadowOf(n.of)
    [] n.kind = "border" -> ShadowOf(n.of)
    [] n.kind = "slot" ->
         IF n.of \in {CommunicatingListener, NotifyListener}
           THEN Node("p", n.of, 0)
           ELSE Node("div", n.of, 0)
    [] n.kind = "p" -> ShadowOf(n.of)
    [] n.kind = "input" -> Node("label", n.of, 0)
    [] n.kind = "label" -> ShadowOf(n.of)
    [] n.kind = "button" -> ShadowOf(n.of)
    [] n.kind = "sourceDiv" -> ShadowOf(n.of)
    [] n.kind = "span" -> Node("sourceShadow", n.of, n.k)
    [] OTHER -> Null

IsShadowRoot(n) == n.kind \in {"shadowRoot", "sourceShadow"}

\* A shadow root's host.
Host(n) ==
  CASE n.kind = "shadowRoot" -> HostOf(n.of)
    [] n.kind = "sourceShadow" -> Node("sourceDiv", n.of, n.k)
    [] OTHER -> Null

\* The slot a light DOM child of a host is assigned to (Null: none).
AssignedSlot(n) ==
  IF n.kind # "host" THEN Null
  ELSE IF n.of \in ListenerTags THEN Node("slot", Understanding, 0)
  ELSE IF n.of \in DispatcherTags \cup {CommunicatingDispatcher, NotifyDispatcher}
    THEN Node("slot", ListenerOf(n.of), 0)
  ELSE Null

RECURSIVE Root(_)
Root(n) == IF TreeParent(n) = Null THEN n ELSE Root(TreeParent(n))

RECURSIVE IsShadowIncludingInclusiveAncestor(_, _)
IsShadowIncludingInclusiveAncestor(a, b) ==
  IF b = Null THEN FALSE
  ELSE IF a = b THEN TRUE
  ELSE IsShadowIncludingInclusiveAncestor(a, IF IsShadowRoot(b) THEN Host(b) ELSE TreeParent(b))

\* DOM "get the parent" of a node for an event dispatched at origin: an
\* assigned node's parent is its slot; a shadow root's is its host, unless
\* the event is not composed and the shadow root is the origin's root.
GetParent(n, event, origin) ==
  IF IsShadowRoot(n)
    THEN IF ~event.composed /\ n = Root(origin) THEN Null ELSE Host(n)
    ELSE IF AssignedSlot(n) # Null THEN AssignedSlot(n) ELSE TreeParent(n)

\* The event path above the target, each entry with whether the event is at
\* its target there (the entry is the retargeted target: a host reached
\* from inside its shadow tree).
RECURSIVE PathFrom(_, _, _, _)
PathFrom(parent, target, event, origin) ==
  IF parent = Null THEN <<>>
  ELSE LET inTree == IsShadowIncludingInclusiveAncestor(Root(target), parent)
       IN <<[node |-> parent, atTarget |-> ~inTree]>>
            \o PathFrom(GetParent(parent, event, origin),
                        IF inTree THEN target ELSE parent, event, origin)

EventPath(origin, event) ==
  <<[node |-> origin, atTarget |-> TRUE]>>
    \o PathFrom(GetParent(origin, event, origin), origin, event, origin)

\* The @event listeners of the templates: the node, the event type, the
\* element whose method handles it, and whether the method stores
\* e.detail.message in msg.
TemplateListener(node, type, owner, handler, setsMsg) ==
  [node |-> node, type |-> type, owner |-> owner, handler |-> handler, setsMsg |-> setsMsg]

TemplateListeners ==
  {TemplateListener(Node("div", owner, 0), "myBubbleEvent", owner, "_bubbleListener", FALSE)
     : owner \in {App, Understanding}}
  \cup
  {TemplateListener(Node("div", owner, 0), "myBubbleComposedEvent", owner, "_bubbleComposedListener", FALSE)
     : owner \in {App, Understanding}}
  \cup
  {TemplateListener(Node("div", owner, 0), "myComposedEvent", owner, "_composedListener", FALSE)
     : owner \in {App, Understanding}}
  \cup
  {TemplateListener(Node("div", BubbleListener, 0), "myBubbleEvent",
                    BubbleListener, "_bubbleListener", TRUE),
   TemplateListener(Node("div", BubbleComposedListener, 0), "myBubbleComposedEvent",
                    BubbleComposedListener, "_bubbleComposedListener", TRUE),
   TemplateListener(Node("div", ComposedListener, 0), "myComposedEvent",
                    ComposedListener, "_composedListener", TRUE)}
  \cup
  {TemplateListener(Node("p", CommunicatingListener, 0), "checked",
                    CommunicatingListener, "_checkedHandler", FALSE)}
  \cup
  {TemplateListener(Node("p", NotifyListener, 0), type, NotifyListener, "_listener", FALSE)
     : type \in {"opened", "closed"}}

\* The listeners a dispatch at origin invokes: those of the event's type on
\* a node of the path, where the event is at its target or bubbles.
Invoked(origin, event) ==
  LET path == EventPath(origin, event)
  IN {l \in TemplateListeners :
        /\ l.type = event.type
        /\ \E k \in 1..Len(path) :
             /\ path[k].node = l.node
             /\ (path[k].atTarget \/ event.bubbles)}

\* The click handlers' common part: append a div with a shadow root holding
\* a span to the dispatcher's shadow root, and dispatch the event from the
\* span; the invoked handlers run.  Yields the new [appended, received, msg].
DispatchFromNewShadow(tag, event) ==
  LET span == Node("span", tag, appended[tag] + 1)
      invoked == Invoked(span, event)
  IN [appended |-> [appended EXCEPT ![tag] = @ + 1],
      received |-> [l \in TemplateListeners |->
                      IF l \in invoked THEN received[l] + 1 ELSE received[l]],
      msg |-> [t \in ListenerTags |->
                 IF \E l \in invoked : l.owner = t /\ l.setsMsg
                   THEN event.message
                   ELSE msg[t]]]

SetDom(dom) ==
  /\ appended' = dom.appended
  /\ received' = dom.received
  /\ msg' = dom.msg

\* A faulty variant of myBubbleEvent: the event is composed.
myBubbleEventComposed ==
  [type |-> "myBubbleEvent", message |-> "myBubbleEvent happened.",
   bubbles |-> TRUE, composed |-> TRUE]

myBubbleEvent ==
  [type |-> "myBubbleEvent", message |-> "myBubbleEvent happened.",
   bubbles |-> TRUE, composed |-> FALSE]

\* A faulty variant of myBubbleComposedEvent: the event is not composed.
myBubbleComposedEventNotComposed ==
  [type |-> "myBubbleComposedEvent", message |-> "myBubbleComposedEvent happened.",
   bubbles |-> TRUE, composed |-> FALSE]

myBubbleComposedEvent ==
  [type |-> "myBubbleComposedEvent", message |-> "myBubbleComposedEvent happened.",
   bubbles |-> TRUE, composed |-> TRUE]

\* A faulty variant of myComposedEvent: the event bubbles.
myComposedEventBubbles ==
  [type |-> "myComposedEvent", message |-> "myComposedEvent happened.",
   bubbles |-> TRUE, composed |-> TRUE]

myComposedEvent ==
  [type |-> "myComposedEvent", message |-> "myComposedEvent happened.",
   bubbles |-> FALSE, composed |-> TRUE]

BubbleEventDispatcher_dispatchBubble ==
  /\ appended[BubbleDispatcher] < MaxDispatchClicks
  /\ SetDom(DispatchFromNewShadow(BubbleDispatcher, myBubbleEvent))
  /\ DomFrame

BubbleComposedEventDispatcher_dispatchBubbleComposed ==
  /\ appended[BubbleComposedDispatcher] < MaxDispatchClicks
  /\ SetDom(DispatchFromNewShadow(BubbleComposedDispatcher, myBubbleComposedEvent))
  /\ DomFrame

ComposedEventDispatcher_dispatchComposed ==
  /\ appended[ComposedDispatcher] < MaxDispatchClicks
  /\ SetDom(DispatchFromNewShadow(ComposedDispatcher, myComposedEvent))
  /\ DomFrame

DomInit ==
  /\ appended = [t \in DispatcherTags |-> 0]
  /\ msg = [t \in ListenerTags |-> ""]
  /\ received = [l \in TemplateListeners |-> 0]

\* The clicks on the three dispatchers' buttons.
DomNext ==
  \/ BubbleEventDispatcher_dispatchBubble
  \/ BubbleComposedEventDispatcher_dispatchBubbleComposed
  \/ ComposedEventDispatcher_dispatchComposed

(***************************************************************************)
(* Communicating between dispatcher and listener: the dispatcher's         *)
(* checkbox click dispatches a cancelable 'checked' event at the           *)
(* dispatcher, which is slotted into the listener; the listener's handler  *)
(* on the <p> around its slot may cancel it and rewrite its detail.        *)
(* The strings stand for the source's, whose emoji are left out.           *)
(***************************************************************************)
defaultMessage == "smile"
preventedMessage == "Prevented!!"

\* A faulty variant of checkedEventInit: the event is not cancelable.
checkedEventInitNotCancelable ==
  [type |-> "checked", bubbles |-> TRUE, composed |-> TRUE, cancelable |-> FALSE]

\* The CustomEvent options _tryChange passes, with the event's type.
checkedEventInit ==
  [type |-> "checked", bubbles |-> TRUE, composed |-> TRUE, cancelable |-> TRUE]

\* new CustomEvent("checked", {detail, ...}): not canceled yet.
CustomEvent(init, detail) ==
  [type |-> init.type, bubbles |-> init.bubbles, composed |-> init.composed,
   cancelable |-> init.cancelable, detail |-> detail, canceled |-> FALSE]

\* Event.preventDefault: sets the canceled flag of a cancelable event.
preventDefault(e) == [e EXCEPT !.canceled = e.cancelable]

\* Event.defaultPrevented.
defaultPrevented(e) == e.canceled

\* The listener's handler: the event's detail object is the dispatcher's.
CommunicatingListener_checkedHandler(listener, e) ==
  IF ~listener.canCheck
    THEN [preventDefault(e) EXCEPT !.detail.message = preventedMessage]
    ELSE e

\* this.dispatchEvent(event) at the dispatcher: the event after the invoked
\* handlers have run.
DispatchChecked(event) ==
  IF \E l \in Invoked(HostOf(CommunicatingDispatcher), event) :
       l.owner = CommunicatingListener /\ l.handler = "_checkedHandler"
    THEN CommunicatingListener_checkedHandler(cbl, event)
    ELSE event

\* The message property's setter: a changed value requests an update.
SetMessage(el, v) ==
  [el EXCEPT !.message = v, !.isUpdatePending = @ \/ (v # el.message)]

NoClick ==
  [happened |-> FALSE, canCheck |-> FALSE, messageBefore |-> "", messageAfter |-> "",
   checkedBefore |-> FALSE, checkedAfter |-> FALSE,
   checkedCanceled |-> FALSE, clickCanceled |-> FALSE]

\* A click on the rendered checkbox: the checkbox toggles, _tryChange runs,
\* and a canceled click restores the checkbox.
CommunicatingDispatcher_tryChange ==
  /\ cbd.hasUpdated
  /\ LET event == DispatchChecked(CustomEvent(checkedEventInit, [message |-> cbd.message]))
         clickCanceled == defaultPrevented(event)
         checked == IF clickCanceled THEN cbd.checked ELSE ~cbd.checked
     IN /\ cbd' = [SetMessage(cbd, event.detail.message) EXCEPT !.checked = checked]
        /\ lastClick' = [happened |-> TRUE, canCheck |-> cbl.canCheck,
                         messageBefore |-> cbd.message,
                         messageAfter |-> event.detail.message,
                         checkedBefore |-> cbd.checked, checkedAfter |-> checked,
                         checkedCanceled |-> defaultPrevented(event),
                         clickCanceled |-> clickCanceled]
  /\ UNCHANGED cbl
  /\ CommFrame

\* The dispatcher's update: render, then updated() restarts the reset timer.
\* Its first update follows the listener's: the listener is connected first.
CommunicatingDispatcher_performUpdate ==
  /\ cbd.isUpdatePending
  /\ cbd.hasUpdated \/ cbl.hasUpdated
  /\ cbd' = [cbd EXCEPT !.isUpdatePending = FALSE, !.hasUpdated = TRUE,
                        !._resetMessage = TRUE]
  /\ UNCHANGED <<cbl, lastClick>>
  /\ CommFrame

\* The reset timer fires (a task: no update is pending then).
CommunicatingDispatcher_resetMessage ==
  /\ cbd._resetMessage
  /\ ~cbd.isUpdatePending
  /\ cbd' = [SetMessage(cbd, defaultMessage) EXCEPT !._resetMessage = FALSE]
  /\ UNCHANGED <<cbl, lastClick>>
  /\ CommFrame

\* The listener's rendered Toggle button: canCheck is a reactive property.
CommunicatingListener_clickHandler ==
  /\ cbl.hasUpdated
  /\ cbl' = [cbl EXCEPT !.canCheck = ~cbl.canCheck, !.isUpdatePending = TRUE]
  /\ UNCHANGED <<cbd, lastClick>>
  /\ CommFrame

\* The listener's update: render.
CommunicatingListener_performUpdate ==
  /\ cbl.isUpdatePending
  /\ cbl' = [cbl EXCEPT !.isUpdatePending = FALSE, !.hasUpdated = TRUE]
  /\ UNCHANGED <<cbd, lastClick>>
  /\ CommFrame

CommInit ==
  /\ cbd = [message |-> defaultMessage, checked |-> FALSE, isUpdatePending |-> TRUE,
            hasUpdated |-> FALSE, _resetMessage |-> FALSE]
  /\ cbl = [canCheck |-> FALSE, isUpdatePending |-> TRUE, hasUpdated |-> FALSE]
  /\ lastClick = NoClick

CommNext ==
  \/ CommunicatingDispatcher_tryChange
  \/ CommunicatingDispatcher_performUpdate
  \/ CommunicatingDispatcher_resetMessage
  \/ CommunicatingListener_clickHandler
  \/ CommunicatingListener_performUpdate

(***************************************************************************)
(* The lifecycle AppElement, which binds its msg, prop1 and prop2 state to  *)
(* the attributes of attribute-changed-callback-element and of             *)
(* performing-update-element and changes them from three text inputs.      *)
(* First performing-update-element.                                        *)
(***************************************************************************)
\* What the inputs may hold after an input event.
InputValues == {"a", "b", ""}

\* A reactive property's setter: a changed value is recorded in the
\* changed-properties map and requests an update.
SetProperty(el, name, v) ==
  IF el[name] = v THEN el
  ELSE [el EXCEPT ![name] = v, !.changedProperties = @ \cup {name},
                  !.isUpdatePending = TRUE]

\* The element as constructed: the field initialisers run the setters.
PerformingUpdateElement ==
  [prop1 |-> "", prop2 |-> "never changes", sha |-> "",
   changedProperties |-> {"prop1", "prop2", "sha"}, isUpdatePending |-> TRUE,
   connected |-> FALSE, rendered |-> <<>>]

\* prop1 and prop2 are String properties: the attribute's value is the
\* property's.
PerformingUpdateElement_attributeChangedCallback(el, name, value) ==
  SetProperty(el, name, value)

\* A faulty variant of PerformingUpdateElement_shouldUpdate: the default.
PerformingUpdateElement_shouldUpdateAlways(changedProperties) == TRUE

PerformingUpdateElement_shouldUpdate(changedProperties) ==
  "prop1" \in changedProperties

\* A faulty variant of PerformingUpdateElement_willUpdate: sha is not computed.
PerformingUpdateElement_willUpdateSkipped(el, changedProperties) == el

PerformingUpdateElement_willUpdate(el, changedProperties) ==
  IF "prop1" \in changedProperties
    THEN SetProperty(el, "sha", el.prop1 \o " " \o el.prop2)
    ELSE el

PerformingUpdateElement_render(el) ==
  "PerformingUpdateElement: " \o el.prop1 \o ", " \o el.prop2 \o ", " \o el.sha

\* update(): super.update() renders the template into the shadow root.
PerformingUpdateElement_update(el) ==
  [el EXCEPT !.rendered = <<PerformingUpdateElement_render(el)>>]

\* ReactiveElement.__markUpdated.
MarkUpdated(el) == [el EXCEPT !.changedProperties = {}, !.isUpdatePending = FALSE]

NoCycle ==
  [happened |-> FALSE, changedProperties |-> {}, ran |-> {},
   shaBefore |-> "", renderedBefore |-> <<>>, prop2Used |-> ""]

(***************************************************************************)
(* attribute-changed-callback-element.                                     *)
(***************************************************************************)
\* The element as constructed: no msg attribute yet (<<>>).
AttributeChangedCallbackElement ==
  [msg |-> "default", attribute |-> <<>>, changedProperties |-> {"msg"},
   isUpdatePending |-> TRUE, connected |-> FALSE, rendered |-> <<>>]

\* A faulty variant of AttributeChangedCallbackElement_attributeChangedCallback:
\* the callback only logs.
AttributeChangedCallbackElement_attributeChangedCallbackLogsOnly(el, name, oldValue, newValue) ==
  el

\* The override sets msg itself and does not call super.
AttributeChangedCallbackElement_attributeChangedCallback(el, name, oldValue, newValue) ==
  SetProperty(el, "msg", newValue)

AttributeChangedCallbackElement_render(el) ==
  "AttributeChangedCallbackElement: " \o el.msg

\* Element.setAttribute on the element: msg is its one observed attribute.
SetMsgAttribute(el, v) ==
  AttributeChangedCallbackElement_attributeChangedCallback(
    [el EXCEPT !.attribute = <<v>>], "msg",
    IF el.attribute = <<>> THEN "" ELSE el.attribute[1], v)

\* The element's update, once it is connected.
AttributeChangedCallbackElement_performUpdate ==
  /\ ace.connected
  /\ ace.isUpdatePending
  /\ ace' = MarkUpdated([ace EXCEPT !.rendered = <<AttributeChangedCallbackElement_render(ace)>>])
  /\ UNCHANGED <<papp, pue, lastCycle>>
  /\ PerformFrame

\* ReactiveElement.performUpdate, run as a microtask once the element is
\* connected; updateComplete resolves when it ends with no update pending.
\* lastCycle.prop2Used is the prop2 of the last cycle that had prop1 changed.
PerformingUpdateElement_performUpdate ==
  /\ pue.connected
  /\ pue.isUpdatePending
  /\ LET changed == pue.changedProperties
         should == PerformingUpdateElement_shouldUpdate(changed)
         willed == PerformingUpdateElement_willUpdate(pue, changed)
     IN /\ pue' = IF should
                    THEN MarkUpdated(PerformingUpdateElement_update(willed))
                    ELSE MarkUpdated(pue)
        /\ lastCycle' =
             [happened |-> TRUE, changedProperties |-> changed,
              ran |-> IF should THEN {"shouldUpdate", "willUpdate", "update", "render"}
                                ELSE {"shouldUpdate"},
              shaBefore |-> pue.sha, renderedBefore |-> pue.rendered,
              prop2Used |-> IF "prop1" \in changed THEN pue.prop2
                                                      ELSE lastCycle.prop2Used]
  /\ UNCHANGED <<papp, ace>>
  /\ PerformFrame

\* AppElement's update: render commits msg=${this.msg} of
\* <attribute-changed-callback-element>, when the value is not the committed
\* one, and the prop1 and prop2 attributes of <performing-update-element>;
\* its first render creates and connects the two elements.
PerformAppElement_performUpdate ==
  /\ papp.isUpdatePending
  /\ papp' = [papp EXCEPT !.isUpdatePending = FALSE, !.hasUpdated = TRUE]
  /\ pue' = [PerformingUpdateElement_attributeChangedCallback(
               PerformingUpdateElement_attributeChangedCallback(pue, "prop1", papp.prop1),
               "prop2", papp.prop2)
             EXCEPT !.connected = TRUE]
  /\ ace' = [(IF ace.attribute = <<papp.msg>> THEN ace ELSE SetMsgAttribute(ace, papp.msg))
             EXCEPT !.connected = TRUE]
  /\ UNCHANGED lastCycle
  /\ PerformFrame

\* this.msg = input.value, msg a @state() of AppElement.  An input event is
\* a task: the elements' pending updates have run by then.
PerformAppElement_handleInput(v) ==
  /\ papp.hasUpdated
  /\ ~pue.isUpdatePending /\ ~ace.isUpdatePending
  /\ papp' = [papp EXCEPT !.msg = v, !.isUpdatePending = @ \/ (v # papp.msg)]
  /\ UNCHANGED <<pue, lastCycle, ace>>
  /\ PerformFrame

\* this.prop1 = input.value.
PerformAppElement_handleProp1Input(v) ==
  /\ papp.hasUpdated
  /\ ~pue.isUpdatePending /\ ~ace.isUpdatePending
  /\ papp' = [papp EXCEPT !.prop1 = v, !.isUpdatePending = @ \/ (v # papp.prop1)]
  /\ UNCHANGED <<pue, lastCycle, ace>>
  /\ PerformFrame

PerformAppElement_handleProp2Input(v) ==
  /\ papp.hasUpdated
  /\ ~pue.isUpdatePending /\ ~ace.isUpdatePending
  /\ papp' = [papp EXCEPT !.prop2 = v, !.isUpdatePending = @ \/ (v # papp.prop2)]
  /\ UNCHANGED <<pue, lastCycle, ace>>
  /\ PerformFrame

PerformInit ==
  /\ papp = [msg |-> "message from the parent",
             prop1 |-> "value from the parent prop1", prop2 |-> "value from the parent prop2",
             isUpdatePending |-> TRUE, hasUpdated |-> FALSE]
  /\ pue = PerformingUpdateElement
  /\ ace = AttributeChangedCallbackElement
  /\ lastCycle = NoCycle

PerformNext ==
  \/ PerformAppElement_performUpdate
  \/ PerformingUpdateElement_performUpdate
  \/ AttributeChangedCallbackElement_performUpdate
  \/ \E v \in InputValues : PerformAppElement_handleInput(v)
  \/ \E v \in InputValues : PerformAppElement_handleProp1Input(v)
  \/ \E v \in InputValues : PerformAppElement_handleProp2Input(v)

(***************************************************************************)
(* dispatching-events-after-an-element-updates: _notify toggles open,      *)
(* awaits updateComplete and dispatches 'opened' or 'closed'.  The element *)
(* is slotted into listener-after-an-element-updates, which measures its   *)
(* height anew after each of the two events.                               *)
(***************************************************************************)
\* The element after its constructor: open is true, the first update is
\* requested and waits for the first connectedCallback.
DispatchingEventsAfterAnElementUpdates ==
  [connected |-> FALSE, open |-> TRUE, changedProperties |-> {"open"},
   isUpdatePending |-> TRUE, rendered |-> <<>>,
   enablePromise |-> NotifyEnablePromise, updatePromise |-> NotifyFirstUpdatePromise,
   calls |-> 0]

\* The rest of a _notify call after its await; produced is the value of
\* open the call has set.
NotifyContinuation(produced) ==
  [kind |-> "notifyContinuation", self |-> NotifySelf, promise |-> 0,
   rejected |-> FALSE, produced |-> produced]

\* performUpdate(): render shows Close or Open for the current open.
Notify_performUpdate(el) ==
  IF ~el.isUpdatePending THEN el
  ELSE [el EXCEPT !.rendered = <<el.open>>,
                  !.changedProperties = {},
                  !.isUpdatePending = FALSE]

\* listener-after-an-element-updates after its constructor: height is null
\* (<<>>); frames counts the requestAnimationFrame callbacks not yet run.
ListenerAfterAnElementUpdates ==
  [height |-> <<>>, changedProperties |-> {"height"}, isUpdatePending |-> TRUE,
   rendered |-> <<>>, hasUpdated |-> FALSE,
   enablePromise |-> NotifyListenerEnablePromise,
   updatePromise |-> NotifyListenerFirstUpdatePromise, frames |-> 0]

\* this.height = v, height a reactive property.  Yields [el, st].
SetHeight(el, st, v) ==
  requestUpdate(NotifyListenerSelf, [el EXCEPT !.height = v], st, "height", el.height # v)

\* this.getBoundingClientRect().height: the slotted dispatcher's content
\* paragraph is hidden unless it has rendered open.
MeasuredHeight == IF deu.rendered = <<TRUE>> THEN "open height" ELSE "closed height"

\* performUpdate(): render, then updated() requests an animation frame when
\* height is null.
NotifyListener_performUpdate(el) ==
  IF ~el.isUpdatePending THEN el
  ELSE [el EXCEPT !.rendered = <<el.height>>,
                  !.hasUpdated = TRUE,
                  !.changedProperties = {},
                  !.isUpdatePending = FALSE,
                  !.frames = IF el.height = <<>> THEN @ + 1 ELSE @]

\* this.dispatchEvent(new CustomEvent(name, { bubbles: true, composed: true }))
\* at the dispatcher: the listener's _listener sets height to null when the
\* event reaches its rendered <p @opened @closed>.  Yields [el, st].
DispatchNotify(name, el, st) ==
  LET event == [type |-> name, bubbles |-> TRUE, composed |-> TRUE]
  IN IF /\ el.hasUpdated
        /\ \E l \in Invoked(HostOf(NotifyDispatcher), event) :
             l.owner = NotifyListener /\ l.handler = "_listener"
       THEN SetHeight(el, st, <<>>)
       ELSE [el |-> el, st |-> st]

\* const name = this.open ? "opened" : "closed", read when the call resumes.
NotifyEventName(el) == IF el.open THEN "opened" ELSE "closed"

\* AppElement's first render connects the listener and then the dispatcher
\* slotted into it: their connectedCallbacks let their first updates run.
DispatchingEventsAfterAnElementUpdates_connectedCallback ==
  /\ ~draining
  /\ ~deu.connected
  /\ deu' = [deu EXCEPT !.connected = TRUE]
  /\ SetScheduler(Resolve(Resolve(Scheduler, lau.enablePromise), deu.enablePromise))
  /\ UNCHANGED <<lau, draining, events>>
  /\ NotifyFrame

\* A click on the rendered button, or a call of click() by a script:
\* _notify up to its await.
DispatchingEventsAfterAnElementUpdates_notify ==
  /\ ~draining
  /\ deu.rendered # <<>>
  /\ deu.calls < MaxNotifyCalls
  /\ LET set == [deu EXCEPT !.open = ~deu.open, !.calls = @ + 1]
         req == requestUpdate(NotifySelf, set, Scheduler, "open", TRUE)
     IN /\ deu' = req.el
        /\ SetScheduler(Await(req.st, req.el.updatePromise, NotifyContinuation(set.open)))
  /\ UNCHANGED <<lau, draining, events>>
  /\ NotifyFrame

\* __enqueueUpdate after its await: perform the update, then fulfil the
\* update's promise.
RunNotifyEnqueueUpdate ==
  /\ microtasks # <<>>
  /\ Head(microtasks).kind = "enqueueUpdate"
  /\ Head(microtasks).self = NotifySelf
  /\ LET task == Head(microtasks)
         st == [Scheduler EXCEPT !.microtasks = Tail(microtasks)]
         done == Resolve(st, task.promise)
     IN /\ deu' = Notify_performUpdate(deu)
        /\ SetScheduler(done)
        /\ draining' = (done.microtasks # <<>>)
  /\ UNCHANGED <<lau, events>>
  /\ NotifyFrame

\* The same for the listener's update.
RunNotifyListenerEnqueueUpdate ==
  /\ microtasks # <<>>
  /\ Head(microtasks).kind = "enqueueUpdate"
  /\ Head(microtasks).self = NotifyListenerSelf
  /\ LET task == Head(microtasks)
         st == [Scheduler EXCEPT !.microtasks = Tail(microtasks)]
         done == Resolve(st, task.promise)
     IN /\ lau' = NotifyListener_performUpdate(lau)
        /\ SetScheduler(done)
        /\ draining' = (done.microtasks # <<>>)
  /\ UNCHANGED <<deu, events>>
  /\ NotifyFrame

\* The animation frame callback, a task of its own:
\* this.height = this.getBoundingClientRect().height.
NotifyListener_animationFrame ==
  /\ ~draining
  /\ microtasks = <<>>
  /\ lau.frames > 0
  /\ LET set == SetHeight([lau EXCEPT !.frames = @ - 1], Scheduler, <<MeasuredHeight>>)
     IN /\ lau' = set.el
        /\ SetScheduler(set.st)
  /\ UNCHANGED <<deu, draining, events>>
  /\ NotifyFrame

\* _notify after its await: the event is named from open as it is now.
RunNotifyContinuation ==
  /\ microtasks # <<>>
  /\ Head(microtasks).kind = "notifyContinuation"
  /\ LET task == Head(microtasks)
         st == [Scheduler EXCEPT !.microtasks = Tail(microtasks)]
         heard == DispatchNotify(NotifyEventName(deu), lau, st)
     IN /\ events' = Append(events,
                            [type |-> NotifyEventName(deu), self |-> NotifySelf,
                             rendered |-> deu.rendered,
                             isUpdatePending |-> deu.isUpdatePending,
                             produced |-> task.produced])
        /\ lau' = heard.el
        /\ SetScheduler(heard.st)
        /\ draining' = (heard.st.microtasks # <<>>)
  /\ UNCHANGED deu
  /\ NotifyFrame

NotifyInit ==
  /\ deu = DispatchingEventsAfterAnElementUpdates
  /\ lau = ListenerAfterAnElementUpdates

NotifyNext ==
  \/ DispatchingEventsAfterAnElementUpdates_connectedCallback
  \/ DispatchingEventsAfterAnElementUpdates_notify
  \/ RunNotifyEnqueueUpdate
  \/ RunNotifyListenerEnqueueUpdate
  \/ NotifyListener_animationFrame
  \/ RunNotifyContinuation

(***************************************************************************)
(* customize-update-element: scheduleUpdate defers the update behind a     *)
(* timeout, firstUpdated looks up the rendered child-element, and          *)
(* getUpdateComplete awaits the element's update and then the child's.     *)
(***************************************************************************)
\* The element after its constructor; _myChild is undefined (<<>>), and
\* timeoutPromise is the promise a pending setTimeout callback resolves.
CustomizeUpdateElement ==
  [connected |-> FALSE, isUpdatePending |-> TRUE, hasUpdated |-> FALSE,
   _myChild |-> <<>>, timeoutPromise |-> <<>>,
   enablePromise |-> CustomizeEnablePromise,
   updatePromise |-> CustomizeFirstUpdatePromise]

\* child-element before the element's render creates it.
NoChildElement ==
  [created |-> FALSE, isUpdatePending |-> FALSE, hasUpdated |-> FALSE, updatePromise |-> 0]

\* The rest of an async function after an await; promise is the promise the
\* step settles.
Continuation(kind, self, promise) ==
  [kind |-> kind, self |-> self, promise |-> promise, rejected |-> FALSE]

\* render() puts <child-element> into the shadow root: the child is
\* constructed (its first update requested) and connected (its first update
\* let run).  Yields [child, st].
CustomizeUpdateElement_render(st) ==
  LET enable == NewPromise(st)
      st1 == WithNewPromise(st)
      update == NewPromise(st1)
      st2 == Await(WithNewPromise(st1), enable, EnqueueUpdateTask(ChildSelf, update))
  IN [child |-> [created |-> TRUE, isUpdatePending |-> TRUE, hasUpdated |-> FALSE,
                 updatePromise |-> update],
      st |-> Resolve(st2, enable)]

\* A faulty variant of CustomizeUpdateElement_firstUpdated: _myChild is not assigned.
CustomizeUpdateElement_firstUpdatedNoAssign(el, child) == el

\* this._myChild = this.shadowRoot.querySelector("child-element").
CustomizeUpdateElement_firstUpdated(el, child) ==
  [el EXCEPT !._myChild = IF child.created THEN <<ChildSelf>> ELSE <<>>]

\* performUpdate(): render, mark the element updated, call firstUpdated on
\* the first update.  Yields [el, child, st].
CustomizeUpdateElement_performUpdate(el, child, st) ==
  IF ~el.isUpdatePending THEN [el |-> el, child |-> child, st |-> st]
  ELSE LET rendered == IF child.created THEN [child |-> child, st |-> st]
                                        ELSE CustomizeUpdateElement_render(st)
           marked == [el EXCEPT !.isUpdatePending = FALSE, !.hasUpdated = TRUE]
       IN [el |-> IF el.hasUpdated THEN marked
                  ELSE CustomizeUpdateElement_firstUpdated(marked, rendered.child),
           child |-> rendered.child,
           st |-> rendered.st]

\* connectedCallback(): the first one lets the first update run.
CustomizeUpdateElement_connectedCallback ==
  /\ ~draining
  /\ ~cze.connected
  /\ cze' = [cze EXCEPT !.connected = TRUE]
  /\ SetScheduler(Resolve(Scheduler, cze.enablePromise))
  /\ UNCHANGED <<che, gets, draining, events>>
  /\ CustomizeFrame

\* __enqueueUpdate after its first await: it calls scheduleUpdate(), which
\* runs up to its await of new Promise((resolve) => setTimeout(resolve)),
\* and awaits the promise scheduleUpdate() returned.
RunCustomizeEnqueueUpdate ==
  /\ microtasks # <<>>
  /\ Head(microtasks).kind = "enqueueUpdate"
  /\ Head(microtasks).self = CustomizeSelf
  /\ LET task == Head(microtasks)
         st == [Scheduler EXCEPT !.microtasks = Tail(microtasks)]
         timeout == NewPromise(st)
         st1 == WithNewPromise(st)
         result == NewPromise(st1)
         st2 == Await(WithNewPromise(st1), timeout,
                      Continuation("scheduleUpdate", CustomizeSelf, result))
         st3 == Await(st2, result,
                      Continuation("enqueueUpdateResult", CustomizeSelf, task.promise))
     IN /\ cze' = [cze EXCEPT !.timeoutPromise = <<timeout>>]
        /\ SetScheduler(st3)
        /\ draining' = (st3.microtasks # <<>>)
  /\ UNCHANGED <<che, gets, events>>
  /\ CustomizeFrame

\* The setTimeout callback, a task of its own: resolve.
CustomizeUpdateElement_timeout ==
  /\ ~draining
  /\ microtasks = <<>>
  /\ cze.timeoutPromise # <<>>
  /\ cze' = [cze EXCEPT !.timeoutPromise = <<>>]
  /\ SetScheduler(Resolve(Scheduler, cze.timeoutPromise[1]))
  /\ UNCHANGED <<che, gets, draining, events>>
  /\ CustomizeFrame

\* scheduleUpdate after its await: super.scheduleUpdate() performs the
\* update, and the promise scheduleUpdate() returned is fulfilled.
RunScheduleUpdate ==
  /\ microtasks # <<>>
  /\ Head(microtasks).kind = "scheduleUpdate"
  /\ LET task == Head(microtasks)
         st == [Scheduler EXCEPT !.microtasks = Tail(microtasks)]
         updated == CustomizeUpdateElement_performUpdate(cze, che, st)
         done == Resolve(updated.st, task.promise)
     IN /\ cze' = updated.el
        /\ che' = updated.child
        /\ SetScheduler(done)
        /\ draining' = (done.microtasks # <<>>)
  /\ UNCHANGED <<gets, events>>
  /\ CustomizeFrame

\* __enqueueUpdate after awaiting scheduleUpdate()'s promise: the update's
\* promise is fulfilled.
RunEnqueueUpdateResult ==
  /\ microtasks # <<>>
  /\ Head(microtasks).kind = "enqueueUpdateResult"
  /\ LET task == Head(microtasks)
         st == [Scheduler EXCEPT !.microtasks = Tail(microtasks)]
         done == Resolve(st, task.promise)
     IN /\ SetScheduler(done)
        /\ draining' = (done.microtasks # <<>>)
  /\ UNCHANGED <<cze, che, gets, events>>
  /\ CustomizeFrame

\* child-element's update: render, then its update's promise is fulfilled.
RunChildEnqueueUpdate ==
  /\ microtasks # <<>>
  /\ Head(microtasks).kind = "enqueueUpdate"
  /\ Head(microtasks).self = ChildSelf
  /\ LET task == Head(microtasks)
         st == [Scheduler EXCEPT !.microtasks = Tail(microtasks)]
         done == Resolve(st, task.promise)
     IN /\ che' = [che EXCEPT !.isUpdatePending = FALSE, !.hasUpdated = TRUE]
        /\ SetScheduler(done)
        /\ draining' = (done.microtasks # <<>>)
  /\ UNCHANGED <<cze, gets, events>>
  /\ CustomizeFrame

\* The call of getUpdateComplete() whose returned promise is p.
GetCall(p) == CHOOSE k \in 1..Len(gets) : gets[k].promise = p

\* A script reads the element's updateComplete: getUpdateComplete() up to
\* its first await, of super.getUpdateComplete().
CustomizeUpdateElement_getUpdateComplete ==
  /\ ~draining
  /\ Len(gets) < MaxGetCalls
  /\ LET result == NewPromise(Scheduler)
     IN /\ gets' = Append(gets, [promise |-> result, hasUpdatedAtCall |-> cze.hasUpdated,
                                 threw |-> FALSE, awaitedChild |-> <<>>])
        /\ SetScheduler(Await(WithNewPromise(Scheduler), cze.updatePromise,
                              Continuation("getUpdateCompleteSuper", CustomizeSelf, result)))
  /\ UNCHANGED <<cze, che, draining, events>>
  /\ CustomizeFrame

\* getUpdateComplete after its first await: this._myChild.updateComplete is
\* read, which throws when _myChild is undefined, and awaited.
RunGetUpdateCompleteSuper ==
  /\ microtasks # <<>>
  /\ Head(microtasks).kind = "getUpdateCompleteSuper"
  /\ LET task == Head(microtasks)
         st == [Scheduler EXCEPT !.microtasks = Tail(microtasks)]
         k == GetCall(task.promise)
         throws == cze._myChild = <<>>
         next == IF task.rejected \/ throws
                   THEN Reject(st, task.promise)
                   ELSE Await(st, che.updatePromise,
                              Continuation("getUpdateCompleteChild", CustomizeSelf, task.promise))
     IN /\ gets' = IF task.rejected THEN gets
                   ELSE IF throws THEN [gets EXCEPT ![k].threw = TRUE]
                   ELSE [gets EXCEPT ![k].awaitedChild = <<che.updatePromise>>]
        /\ SetScheduler(next)
        /\ draining' = (next.microtasks # <<>>)
  /\ UNCHANGED <<cze, che, events>>
  /\ CustomizeFrame

\* getUpdateComplete after its second await: return result.
RunGetUpdateCompleteChild ==
  /\ microtasks # <<>>
  /\ Head(microtasks).kind = "getUpdateCompleteChild"
  /\ LET task == Head(microtasks)
         st == [Scheduler EXCEPT !.microtasks = Tail(microtasks)]
         done == IF task.rejected THEN Reject(st, task.promise) ELSE Resolve(st, task.promise)
     IN /\ SetScheduler(done)
        /\ draining' = (done.microtasks # <<>>)
  /\ UNCHANGED <<cze, che, gets, events>>
  /\ CustomizeFrame

CustomizeInit ==
  /\ cze = CustomizeUpdateElement
  /\ che = NoChildElement
  /\ gets = <<>>

CustomizeNext ==
  \/ CustomizeUpdateElement_connectedCallback
  \/ RunCustomizeEnqueueUpdate
  \/ CustomizeUpdateElement_timeout
  \/ RunScheduleUpdate
  \/ RunEnqueueUpdateResult
  \/ RunChildEnqueueUpdate
  \/ CustomizeUpdateElement_getUpdateComplete
  \/ RunGetUpdateCompleteSuper
  \/ RunGetUpdateCompleteChild

Init == OwcInit /\ WindowInit /\ TimerInit /\ UpdateInit /\ DomInit /\ CommInit /\ PerformInit /\ NotifyInit /\ CustomizeInit

SpecOpenWc == Init /\ [][OwcNext]_vars

Spec == Init /\ [][KeydownNext]_vars

SpecResize == Init /\ [][ResizeNext]_vars

SpecTimer == Init /\ [][TimerNext]_vars

SpecLogin == Init /\ [][LoginNext]_vars

SpecDom == Init /\ [][DomNext]_vars

SpecComm == Init /\ [][CommNext]_vars

SpecPerform == Init /\ [][PerformNext]_vars

SpecNotify == Init /\ [][NotifyNext]_vars

SpecCustomize == Init /\ [][CustomizeNext]_vars

\* C1: a newly created element has header 'Hey there' and counter 5, and
\* every click on its button increases counter by exactly 1: after n clicks
\* counter = 5 + n.
C1_CounterAfterClicks ==
  \A f \in Fixtures :
    owc[f].created =>
      /\ owc[f].counter = 5 + owc[f].clicks
      /\ (owc[f].markup = <<>> => owc[f].header = "Hey there")

C1_Witness ==
  \E f \in Fixtures :
    /\ owc[f].created
    /\ owc[f].markup = <<>>
    /\ owc[f].clicks = 2
    /\ owc[f].counter = 7

\* C2: an element created with a header attribute in its markup has that
\* attribute's value as its header property, not the default.
C2_HeaderFromAttribute ==
  \A f \in Fixtures :
    (owc[f].created /\ owc[f].markup # <<>>) => owc[f].header = owc[f].markup[1]

C2_Witness ==
  \E f \in Fixtures :
    /\ owc[f].created
    /\ owc[f].markup = <<"attribute header">>
    /\ owc[f].header = "attribute header"
    /\ owc[f].header # LitOpenWcWebComponentTest.header

\* C3: for any number of disconnected-callback-element instances and any
\* interleaving of their connects and disconnects, an instance's keydown
\* handler is on the window exactly when the instance is connected, and
\* never more than once.
C3_KeydownIffConnected ==
  \A i \in KeydownInstances :
    Registrations(windowListeners,
                  Listener("keydown", DisconnectedCallbackElement_handleKeydown(i)))
      = IF dce[i].connected THEN 1 ELSE 0

C3_Witness ==
  /\ dce[1].connected
  /\ ~dce[2].connected
  /\ Len(windowListeners) > 1
  /\ windowListeners[Len(windowListeners)] =
       Listener("keydown", DisconnectedCallbackElement_handleKeydown(1))
  /\ ~Registered(windowListeners,
                 Listener("keydown", DisconnectedCallbackElement_handleKeydown(2)))

\* C4: once a connected-callback-element has been removed from the
\* document, its keydown handler is no longer registered on the window.
C4_KeydownUndoneOnDisconnect ==
  \A i \in KeydownInstances :
    ~cce[i].connected =>
      ~Registered(windowListeners,
                  Listener("keydown", ConnectedCallbackElement_handleKeydown(i)))

\* C5: for a single listeners-on-other-elements instance (no other instance
\* was ever connected) and any alternating sequence of connect and
\* disconnect, the resize handler is on the window exactly when the
\* instance is connected, also after a reconnect.
C5_ResizeIffConnected ==
  \A i \in ResizeInstances :
    (\A j \in ResizeInstances \ {i} : loe[j].connects = 0) =>
      Registrations(windowListeners,
                    Listener("resize", ListenersOnOtherElements_handleResize))
        = IF loe[i].connected THEN 1 ELSE 0

C5_Witness ==
  /\ loe[1].connected
  /\ loe[1].connects = 2
  /\ \A j \in ResizeInstances \ {1} : loe[j].connects = 0
  /\ Registered(windowListeners, Listener("resize", ListenersOnOtherElements_handleResize))

\* C6: the interval that calls requestUpdate() is active exactly while the
\* element is connected: a connected instance has exactly one active
\* interval (the one _timerInterval names), a disconnected instance has
\* none, and no interval callback has called requestUpdate() on a
\* disconnected instance.
C6_IntervalIffConnected ==
  \A i \in TimerInstances :
    /\ {t \in timers : t.self = i}
         = IF tue[i].connected
             THEN {[handle |-> tue[i]._timerInterval, self |-> i]}
             ELSE {}
    /\ ~tue[i].requestedWhileDisconnected

C6_Witness ==
  \E i \in TimerInstances :
    /\ ~tue[i].connected
    /\ tue[i]._timerInterval = 2
    /\ tue[i].isUpdatePending
    /\ \A t \in timers : t.self # i

\* C7: a click on Login dispatches the 'login' event only after the update
\* that renders loggedIn = true has completed: at every dispatch of 'login'
\* the element shows loggedIn = true and has no update pending.
C7_LoginAfterRender ==
  \A k \in 1..Len(events) :
    events[k].type = "login" =>
      /\ events[k].rendered = <<TRUE>>
      /\ ~events[k].isUpdatePending

C7_Witness ==
  /\ Len(events) = 2
  /\ events[1].type = "login"
  /\ events[1].self = events[2].self
  /\ cue[events[1].self].clicks = 2
  /\ cue[events[1].self].rendered = <<TRUE>>

\* The listeners of an element's template for an event type.
ListenersFor(owner, type) == {l \in TemplateListeners : l.owner = owner /\ l.type = type}

\* C8: an event dispatched inside a shadow root with bubbles: true and
\* composed: false is not visible outside that shadow root: after any
\* number of clicks on bubble-event-dispatcher, bubble-event-listener's
\* _bubbleListener has never run, its msg is still "", and no listener of
\* understanding-composed-event-dispatching or app-element has received
\* myBubbleEvent.
C8_BubbleStaysInside ==
  /\ msg[BubbleListener] = ""
  /\ \A l \in TemplateListeners : l.type = "myBubbleEvent" => received[l] = 0
  /\ \A k \in 1..appended[BubbleDispatcher] :
       LET span == Node("span", BubbleDispatcher, k)
           path == EventPath(span, myBubbleEvent)
       IN \A j \in 1..Len(path) : Root(path[j].node) = Root(span)

C8_Witness ==
  /\ appended[BubbleDispatcher] = 3
  /\ msg[BubbleListener] = ""
  /\ msg[BubbleComposedListener] # ""

\* C9: an event that is composed and bubbles is received by the ancestors
\* of the dispatching node, also those in outer shadow roots: each click on
\* bubble-composed-event-dispatcher invokes bubble-composed-event-listener's
\* _bubbleComposedListener (msg becomes 'myBubbleComposedEvent happened.')
\* and the myBubbleComposedEvent listener of the enclosing
\* understanding-composed-event-dispatching.
C9_BubbleComposedReceived ==
  /\ \A l \in ListenersFor(BubbleComposedListener, "myBubbleComposedEvent")
              \cup ListenersFor(Understanding, "myBubbleComposedEvent") :
       received[l] = appended[BubbleComposedDispatcher]
  /\ ListenersFor(BubbleComposedListener, "myBubbleComposedEvent") # {}
  /\ ListenersFor(Understanding, "myBubbleComposedEvent") # {}
  /\ appended[BubbleComposedDispatcher] > 0 =>
       msg[BubbleComposedListener] = "myBubbleComposedEvent happened."

C9_Witness ==
  /\ appended[BubbleComposedDispatcher] = 2
  /\ msg[BubbleComposedListener] = "myBubbleComposedEvent happened."
  /\ \E l \in ListenersFor(Understanding, "myBubbleComposedEvent") : received[l] = 2

\* C10: an event that is composed but does not bubble is received only on
\* the node that dispatches it and on the hosts of the shadow roots
\* containing it: after any number of clicks on composed-event-dispatcher,
\* composed-event-listener's _composedListener (on a div that is no host)
\* has never run and its msg is still "".
C10_ComposedOnlyAtHosts ==
  /\ msg[ComposedListener] = ""
  /\ \A l \in ListenersFor(ComposedListener, "myComposedEvent") : received[l] = 0
  /\ \A k \in 1..appended[ComposedDispatcher] :
       LET span == Node("span", ComposedDispatcher, k)
           path == EventPath(span, myComposedEvent)
       IN \A j \in 1..Len(path) :
            (path[j].atTarget \/ myComposedEvent.bubbles) =>
              \/ path[j].node = span
              \/ /\ path[j].node.kind \in {"host", "sourceDiv"}
                 /\ IsShadowIncludingInclusiveAncestor(path[j].node, span)

C10_Witness ==
  /\ appended[ComposedDispatcher] = 3
  /\ msg[ComposedListener] = ""
  /\ \A l \in ListenersFor(ComposedListener, "myComposedEvent") : received[l] = 0
  /\ HostOf(ComposedDispatcher) \in
       {EventPath(Node("span", ComposedDispatcher, 3), myComposedEvent)[j].node
          : j \in 1..Len(EventPath(Node("span", ComposedDispatcher, 3), myComposedEvent))}

\* C11: every click on the dispatcher's checkbox, the dispatcher slotted
\* into the listener: with canCheck false the 'checked' event is canceled,
\* the click's default action is prevented (the checkbox keeps its state)
\* and the message becomes the prevented message; with canCheck true
\* neither event is canceled and the message keeps its value.
C11_CheckedCommunicates ==
  lastClick.happened =>
    IF ~lastClick.canCheck
      THEN /\ lastClick.checkedCanceled
           /\ lastClick.clickCanceled
           /\ lastClick.checkedAfter = lastClick.checkedBefore
           /\ lastClick.messageAfter = preventedMessage
      ELSE /\ ~lastClick.checkedCanceled
           /\ ~lastClick.clickCanceled
           /\ lastClick.checkedAfter = ~lastClick.checkedBefore
           /\ lastClick.messageAfter = lastClick.messageBefore

C11_Witness ==
  /\ lastClick.happened
  /\ lastClick.canCheck
  /\ lastClick.messageBefore = preventedMessage
  /\ cbd.message = preventedMessage
  /\ cbd.checked

\* C12: an update cycle of performing-update-element whose changed
\* properties lack prop1 runs neither willUpdate, update nor render, and
\* leaves sha and the rendered output as they were.
C12_OnlyUpdatesOnProp1 ==
  (lastCycle.happened /\ "prop1" \notin lastCycle.changedProperties) =>
    /\ lastCycle.ran \cap {"willUpdate", "update", "render"} = {}
    /\ pue.sha = lastCycle.shaBefore
    /\ pue.rendered = lastCycle.renderedBefore

C12_Witness ==
  /\ lastCycle.happened
  /\ lastCycle.changedProperties = {"prop2"}
  /\ ~pue.isUpdatePending
  /\ pue.prop2 = "a"
  /\ pue.rendered # <<>>

\* C18 as stated: after every completed update cycle sha equals prop1, a
\* space and prop2, from the current values.
C18_ShaFromCurrentValues ==
  (lastCycle.happened /\ ~pue.isUpdatePending) =>
    pue.sha = pue.prop1 \o " " \o pue.prop2

\* C18, amended: after every completed update cycle sha equals prop1, a
\* space and the prop2 of the last cycle whose changed properties had
\* prop1; a cycle in which prop2 alone changed leaves sha as it was.
C18_ShaFromLastProp1Cycle ==
  (lastCycle.happened /\ ~pue.isUpdatePending) =>
    pue.sha = pue.prop1 \o " " \o lastCycle.prop2Used

C18_Witness ==
  /\ lastCycle.happened
  /\ ~pue.isUpdatePending
  /\ "prop1" \notin lastCycle.changedProperties
  /\ pue.prop1 = "b"
  /\ pue.prop2 # lastCycle.prop2Used

\* C13: once the msg attribute of attribute-changed-callback-element has
\* been set to v, by the parent's first render or after an input event,
\* the msg property is v and the render that follows shows v.
C13_MsgFollowsAttribute ==
  ace.attribute # <<>> =>
    /\ ace.msg = ace.attribute[1]
    /\ (~ace.isUpdatePending =>
          ace.rendered = <<"AttributeChangedCallbackElement: " \o ace.attribute[1]>>)

C13_Witness ==
  /\ ace.attribute = <<"b">>
  /\ ~ace.isUpdatePending
  /\ ace.rendered = <<"AttributeChangedCallbackElement: b">>
  /\ papp.msg = "b"

\* C16 as stated: with two or more listeners-on-other-elements instances
\* and any interleaving of connects and disconnects, every connected
\* instance has its resize handler registered on the window.
C16_ConnectedKeepsResize ==
  \A i \in ResizeInstances :
    loe[i].connected =>
      Registered(windowListeners,
                 Listener("resize", ListenersOnOtherElements_handleResize))

\* The events of type type that instance i's handlers have caused.
EventsOf(i, type) == {k \in 1..Len(events) : events[k].self = i /\ events[k].type = type}

\* The continuations of instance i's _loginClickHandler calls still queued.
QueuedLoginContinuations(i) ==
  {k \in 1..Len(microtasks) :
     microtasks[k].kind = "loginContinuation" /\ microtasks[k].self = i}

\* C17: when the update started by a Login click fails, so that
\* updateComplete rejects, _loginClickHandler dispatches no 'login' event,
\* each of its calls ends in an unhandled rejection, and loggedIn stays true.
C17_NoLoginAfterRejection ==
  \A i \in LoginInstances :
    (cue[i].clicks > 0 /\ promiseState[cue[i].updatePromise] = "rejected") =>
      /\ cue[i].loggedIn
      /\ EventsOf(i, "login") = {}
      /\ Cardinality(EventsOf(i, "unhandledrejection"))
           + Cardinality(QueuedLoginContinuations(i)) = cue[i].clicks

C17_Witness ==
  \E i \in LoginInstances :
    /\ cue[i].clicks = 2
    /\ promiseState[cue[i].updatePromise] = "rejected"
    /\ cue[i].rendered = <<FALSE>>
    /\ Cardinality(EventsOf(i, "unhandledrejection")) = 2

C14_UpdateCompleteAwaitsChild ==
  \A k \in 1..Len(gets) :
    /\ ~gets[k].threw
    /\ promiseState[gets[k].promise] # "rejected"
    /\ promiseState[gets[k].promise] = "fulfilled" =>
         /\ cze.hasUpdated
         /\ ~cze.isUpdatePending
         /\ cze._myChild = <<ChildSelf>>
         /\ gets[k].awaitedChild = <<che.updatePromise>>
         /\ promiseState[che.updatePromise] = "fulfilled"
         /\ che.hasUpdated

C14_Witness ==
  /\ Len(gets) = 2
  /\ ~gets[1].hasUpdatedAtCall
  /\ gets[2].hasUpdatedAtCall
  /\ promiseState[gets[1].promise] = "fulfilled"
  /\ promiseState[gets[2].promise] = "fulfilled"

====
